---- MODULE Spec2Model ----
(***************************************************************************)
(* SmartDuplicateHunter, src/src/scanner.py: the FileScanner object        *)
(* (configuration loader, eligibility filters, recursive directory walker, *)
(* size buckets, counters) running against a small file system whose       *)
(* files can be truncated, removed or made inaccessible while a scan runs. *)
(***************************************************************************)
EXTENDS Integers, Sequences, FiniteSets, TLC

VARIABLES
    cfgInput,            \* the argument of FileScanner(config_path) and what the path holds
    config,              \* self.config (ScanConfig), NoConfig before construction
    fs,                  \* the file system: sizes, entry status, link target, listing order
    files_by_size,       \* self.files_by_size: size -> sequence of FileInfo
    total_files_found,   \* self.total_files_found
    total_size_scanned,  \* self.total_size_scanned
    pc,                  \* position of the running scan_directory call, "idle" between calls
    stack,               \* active _scan_recursive frames: [path, todo]
    pbar,                \* the tqdm progress bar of the running call, NoBar when absent
    ret,                 \* outcome of the most recent API call: [kind, value]
    last,                \* the most recent scan_directory call: [root, ev0, kind, value]
    prev,                \* the scan_directory call before it
    acc,                 \* records and bytes accepted since the state was last reset
    listed,              \* [root, dirs]: the walk in progress or last made, its root and the
                         \* directory paths _scan_recursive listed in it
    nEvents,             \* file system events so far
    nCalls               \* scan_directory calls so far

vars == <<cfgInput, config, fs, files_by_size, total_files_found, total_size_scanned,
          pc, stack, pbar, ret, last, prev, acc, listed, nEvents, nCalls>>

----------------------------------------------------------------------------
(* Bounds *)

MaxFsEvents == 1      \* file system events in one behaviour
MaxCalls == 2         \* scan_directory calls in one behaviour
SymlinkMax == 1       \* symbolic links the platform follows in one path lookup (ELOOP beyond)
RecursionLimit == 2   \* nested _scan_recursive frames the interpreter allows (RecursionError beyond)

----------------------------------------------------------------------------
(* The configuration loader *)

DefaultMinFileSize == 1024

\* 10737418240 in the source; TLC integers are 32 bit, every modelled size is far below both
DefaultMaxFileSize == 2147483647

DefaultIncludeExtensions ==
    {".jpg", ".jpeg", ".png", ".gif", ".bmp", ".tiff",
     ".mp4", ".avi", ".mkv", ".mov", ".wmv", ".flv",
     ".mp3", ".wav", ".flac", ".aac", ".ogg",
     ".pdf", ".doc", ".docx", ".txt", ".rtf",
     ".zip", ".rar", ".7z", ".tar", ".gz"}

DefaultExcludeDirectories ==
    {"__pycache__", ".git", ".svn", "node_modules",
     ".vscode", ".idea", "venv", "env",
     "System Volume Information", "$RECYCLE.BIN"}

default_config ==
    [include_extensions |-> DefaultIncludeExtensions,
     exclude_directories |-> DefaultExcludeDirectories,
     min_file_size |-> DefaultMinFileSize,
     max_file_size |-> DefaultMaxFileSize]

\* str.lower() on the extension strings of this model
Lower(s) ==
    CASE s = ".TXT" -> ".txt"
      [] s = ".DAT" -> ".dat"
      [] OTHER -> s

\* {**default_config['scanning'], **user_config.get('scanning', {})}
Merge(d, u) ==
    [k \in (DOMAIN d) \cup (DOMAIN u) |-> IF k \in DOMAIN u THEN u[k] ELSE d[k]]

NoConfig == [loaded |-> FALSE]

\* cfgInput.src: "nopath" (config_path is None), "missing" (no such file),
\* "unparsable" (yaml.safe_load raises), "empty" (safe_load returns None, .get raises),
\* "parsed" (a mapping whose scanning section is cfgInput.scanning)
scanning_config(input) ==
    IF input.src = "parsed"
    THEN Merge(default_config, input.scanning)
    ELSE default_config

_load_config(input) ==
    LET sc == scanning_config(input) IN
    [loaded |-> TRUE,
     include_extensions |-> {Lower(ext) : ext \in sc.include_extensions},
     exclude_directories |-> sc.exclude_directories,
     min_file_size |-> sc.min_file_size,
     max_file_size |-> sc.max_file_size,
     follow_symlinks |-> FALSE,
     ignore_hidden |-> TRUE]

\* Inputs of the loader: every subset of the four scanning keys, integer values around
\* the interesting points
CfgInts == {-1, 0, 1024, 1500}
CfgExtLists == {{}, {".TXT"}, {".txt", ".dat"}}
CfgDirLists == {{}, {"venv"}, {"env", "cache"}}

KeyChoices(key, values) == {<< >>} \cup {key :> v : v \in values}

ParsedSections ==
    {a @@ b @@ c @@ d :
        a \in KeyChoices("include_extensions", CfgExtLists),
        b \in KeyChoices("exclude_directories", CfgDirLists),
        c \in KeyChoices("min_file_size", CfgInts),
        d \in KeyChoices("max_file_size", CfgInts)}

CfgInputs ==
    {[src |-> s, scanning |-> << >>] : s \in {"nopath", "missing", "unparsable", "empty"}}
    \cup {[src |-> "parsed", scanning |-> u] : u \in ParsedSections}

\* The configurations the scanner is run with
ScanCfgInputs ==
    {[src |-> "nopath", scanning |-> << >>],
     [src |-> "parsed",
      scanning |-> ("include_extensions" :> {} @@ "exclude_directories" :> {}
                    @@ "min_file_size" :> 0)],
     [src |-> "parsed",
      scanning |-> ("include_extensions" :> {".TXT"} @@ "exclude_directories" :> {"venv"}
                    @@ "max_file_size" :> 1500)]}

----------------------------------------------------------------------------
(* The file system the scanner reads (os.listdir, os.stat behind pathlib) *)

\* Directory entries: name -> node.  "top" holds the two directories a scan can start
\* from; "L" is a symbolic link whose target is fs.ltarget.
DirEntries ==
    "top" :> ("data" :> "D0" @@ "venv" :> "E")
    @@ "D0" :> ("a.txt" :> "Fa" @@ "b.TXT" :> "Fb" @@ "env" :> "D1" @@ "lnk" :> "L")
    @@ "D1" :> ("n.txt" :> "Fn")
    @@ "E" :> ("o.txt" :> "Fo" @@ ".h.dat" :> "Fh")

Dirs == {"top", "D0", "D1", "E"}
Files == {"Fa", "Fb", "Fn", "Fo", "Fh"}

Kind(node) ==
    IF node \in Dirs THEN "dir" ELSE IF node \in Files THEN "file" ELSE "link"

\* The order os.listdir returns the names of a directory in, when fs.order = "fwd"
BaseOrder ==
    "top" :> <<"data", "venv">>
    @@ "D0" :> <<"a.txt", "env", "lnk", "b.TXT">>
    @@ "D1" :> <<"n.txt">>
    @@ "E" :> <<"o.txt", ".h.dat">>

InitialSize == "Fa" :> 2048 @@ "Fb" :> 2048 @@ "Fn" :> 1024 @@ "Fo" :> 1024 @@ "Fh" :> 1024

\* Nodes the environment acts on while the scanner runs
MutableFiles == {"Fa", "Fb"}
MutableDirs == {"D1"}

LinkTargets == {"none", "D0", "E"}

Reverse(s) == [i \in 1..Len(s) |-> s[Len(s) + 1 - i]]

RECURSIVE SelectNames(_, _)
SelectNames(s, keep) ==
    IF s = << >> THEN << >>
    ELSE IF Head(s) \in keep THEN <<Head(s)>> \o SelectNames(Tail(s), keep)
    ELSE SelectNames(Tail(s), keep)

\* os.listdir(dir): the names present, in the directory's order
Listing(f, dir) ==
    LET present == {n \in DOMAIN DirEntries[dir] : f.st[DirEntries[dir][n]] # "gone"}
        ordered == IF f.order = "fwd" THEN BaseOrder[dir] ELSE Reverse(BaseOrder[dir])
    IN SelectNames(ordered, present)

\* Path lookup from node `node` along the names `rest`, `hops` links followed so far.
\* The result is [err |-> "ok", node |-> n] or [err |-> errno].
RECURSIVE Lookup(_, _, _, _)
Lookup(f, node, rest, hops) ==
    IF Kind(node) = "link"
    THEN IF hops + 1 > SymlinkMax THEN [err |-> "ELOOP", node |-> node]
         ELSE IF f.ltarget = "none" THEN [err |-> "ENOENT", node |-> node]
         ELSE Lookup(f, f.ltarget, rest, hops + 1)
    ELSE IF f.st[node] = "gone" THEN [err |-> "ENOENT", node |-> node]
    ELSE IF rest = << >>
         THEN IF f.st[node] = "denied" /\ Kind(node) = "file"
              THEN [err |-> "EACCES", node |-> node]
              ELSE [err |-> "ok", node |-> node]
    ELSE IF Kind(node) # "dir" THEN [err |-> "ENOTDIR", node |-> node]
    ELSE IF Head(rest) \notin DOMAIN DirEntries[node] THEN [err |-> "ENOENT", node |-> node]
    ELSE Lookup(f, DirEntries[node][Head(rest)], Tail(rest), hops)

\* os.stat(path), following symbolic links
Stat(f, path) == Lookup(f, "top", path, 0)

\* pathlib._IGNORED_ERRNOS: errors exists(), is_file() and is_dir() turn into False
IgnoredErrnos == {"ENOENT", "ENOTDIR", "EBADF", "ELOOP"}

\* Path.exists(), Path.is_file(), Path.is_dir(): "raise" when stat fails with an errno
\* that is not ignored
TypeTest(f, path) ==
    LET s == Stat(f, path) IN
    IF s.err = "ok" THEN Kind(s.node)
    ELSE IF s.err \in IgnoredErrnos THEN "absent"
    ELSE "raise"

\* Path.name, Path.suffix and name.startswith('.') for the names of this model
Basename(path) == path[Len(path)]

Suffix(name) ==
    CASE name \in {"a.txt", "n.txt", "o.txt"} -> ".txt"
      [] name = "b.TXT" -> ".TXT"
      [] name = ".h.dat" -> ".dat"
      [] OTHER -> ""

StartsWithDot(name) == name \in {".h.dat", ".git", ".svn", ".vscode", ".idea"}

----------------------------------------------------------------------------
(* The scanner: filters, buckets, progress pre-pass *)

EmptyBuckets == [k \in {} |-> << >>]

NoBar == [shown |-> FALSE, total |-> 0, n |-> 0]

NoCall == [root |-> << >>, ev0 |-> 0, kind |-> "none", value |-> EmptyBuckets]

FileInfo(path, size) ==
    [path |-> path, size |-> size, extension |-> Lower(Suffix(Basename(path)))]

_should_include_file(f, cfg, file_path) ==
    LET name == Basename(file_path)
        s == Stat(f, file_path)
    IN
    IF cfg.include_extensions # {} /\ Lower(Suffix(name)) \notin cfg.include_extensions
    THEN FALSE
    ELSE IF cfg.ignore_hidden /\ StartsWithDot(name) THEN FALSE
    ELSE IF s.err # "ok" THEN FALSE
    ELSE IF f.size[s.node] < cfg.min_file_size \/ f.size[s.node] > cfg.max_file_size
         THEN FALSE
    ELSE IF f.size[s.node] = 0 THEN FALSE
    ELSE TRUE

\* _should_include_directory without the test of line 136
_should_include_directory_hidden_only(cfg, dir_path) ==
    IF cfg.ignore_hidden /\ StartsWithDot(Basename(dir_path)) THEN FALSE
    ELSE TRUE

_should_include_directory(cfg, dir_path) ==
    IF Basename(dir_path) \in cfg.exclude_directories THEN FALSE
    ELSE IF cfg.ignore_hidden /\ StartsWithDot(Basename(dir_path)) THEN FALSE
    ELSE TRUE

\* self.files_by_size[file_info.size].append(file_info) on the defaultdict
Insert(fbs, info) ==
    [k \in (DOMAIN fbs) \cup {info.size} |->
        IF k = info.size
        THEN IF k \in DOMAIN fbs THEN Append(fbs[k], info) ELSE <<info>>
        ELSE fbs[k]]

\* get_potential_duplicates with len(files) > 0 for len(files) > 1
get_potential_duplicates_nonempty(fbs) ==
    [size \in {k \in DOMAIN fbs : Len(fbs[k]) > 0} |-> fbs[size]]

get_potential_duplicates(fbs) ==
    [size \in {k \in DOMAIN fbs : Len(fbs[k]) > 1} |-> fbs[size]]

\* scan_directory without the clear() of line 168
KeptBuckets == files_by_size

\* The values scan_directory resets the state to (lines 168-170)
ClearedBuckets == EmptyBuckets

ResetFilesFound == 0

\* scan_directory without the reset of line 170
KeptSizeScanned == total_size_scanned

ResetSizeScanned == 0

\* The root checks with a single is_dir() test that raises FileNotFoundError
RootCheckDirOnly(f, directory) ==
    LET t == TypeTest(f, directory) IN
    IF t = "raise" THEN "PermissionError"
    ELSE IF t # "dir" THEN "FileNotFoundError"
    ELSE "ok"

\* The root checks of scan_directory (lines 157-161)
RootCheck(f, directory) ==
    LET t == TypeTest(f, directory) IN
    IF t = "raise" THEN "PermissionError"
    ELSE IF t = "absent" THEN "FileNotFoundError"
    ELSE IF t # "dir" THEN "NotADirectoryError"
    ELSE "ok"

RECURSIVE ConcatAll(_)
ConcatAll(ss) == IF ss = << >> THEN << >> ELSE Head(ss) \o ConcatAll(Tail(ss))

\* directory_path.rglob('*'): the entries of each directory, the directory itself before
\* its subdirectories; symbolic links to directories are not descended into and an
\* unreadable directory yields nothing
RECURSIVE RglobItems(_, _, _)
RglobItems(f, path, node) ==
    IF f.st[node] = "denied" THEN << >>
    ELSE LET names == Listing(f, node)
             here == [i \in 1..Len(names) |-> Append(path, names[i])]
             below == [i \in 1..Len(names) |->
                         IF Kind(DirEntries[node][names[i]]) = "dir"
                         THEN RglobItems(f, Append(path, names[i]), DirEntries[node][names[i]])
                         ELSE << >>]
         IN here \o ConcatAll(below)

\* The loop of _count_files over the items: stops at the first is_file() that raises
RECURSIVE CountUpTo(_, _)
CountUpTo(f, items) ==
    IF items = << >> THEN 0
    ELSE LET t == TypeTest(f, Head(items)) IN
         IF t = "raise" THEN 0
         ELSE (IF t = "file" THEN 1 ELSE 0) + CountUpTo(f, Tail(items))

_count_files(f, directory_path) ==
    CountUpTo(f, RglobItems(f, directory_path, Stat(f, directory_path).node))

\* bool(pbar): False for None and, in tqdm, for a bar whose total is 0
BarTruthy(bar) == bar.shown /\ bar.total > 0

----------------------------------------------------------------------------
(* Records held and their totals *)

RECURSIVE SeqSizeSum(_)
SeqSizeSum(s) == IF s = << >> THEN 0 ELSE Head(s).size + SeqSizeSum(Tail(s))

RECURSIVE NumRecordsIn(_, _)
NumRecordsIn(fbs, keys) ==
    IF keys = {} THEN 0
    ELSE LET k == CHOOSE x \in keys : TRUE
         IN Len(fbs[k]) + NumRecordsIn(fbs, keys \ {k})

RECURSIVE SizeSumIn(_, _)
SizeSumIn(fbs, keys) ==
    IF keys = {} THEN 0
    ELSE LET k == CHOOSE x \in keys : TRUE
         IN SeqSizeSum(fbs[k]) + SizeSumIn(fbs, keys \ {k})

NumRecords(fbs) == NumRecordsIn(fbs, DOMAIN fbs)
SizeSum(fbs) == SizeSumIn(fbs, DOMAIN fbs)

Records(fbs) == UNION {{fbs[k][i] : i \in 1..Len(fbs[k])} : k \in DOMAIN fbs}

----------------------------------------------------------------------------
(* State after FileScanner(config_path) *)

FsNodes == Dirs \cup Files \cup {"L"}

InitFs ==
    {[size |-> InitialSize, st |-> [n \in FsNodes |-> "ok"], ltarget |-> t, order |-> o] :
        t \in LinkTargets, o \in {"fwd", "rev"}}

InitScanner ==
    /\ fs \in InitFs
    /\ files_by_size = EmptyBuckets
    /\ total_files_found = 0
    /\ total_size_scanned = 0
    /\ pc = "idle"
    /\ stack = << >>
    /\ pbar = NoBar
    /\ ret = [kind |-> "none", value |-> EmptyBuckets]
    /\ last = NoCall
    /\ prev = NoCall
    /\ acc = [n |-> 0, bytes |-> 0]
    /\ listed = [root |-> << >>, dirs |-> {}]
    /\ nEvents = 0
    /\ nCalls = 0

Init ==
    /\ cfgInput \in ScanCfgInputs
    /\ config = _load_config(cfgInput)
    /\ InitScanner

----------------------------------------------------------------------------
(* scan_directory and the walk *)

\* The directory arguments scan_directory is called with
Roots == {<<"data">>, <<"venv">>, <<"venv", "o.txt">>, <<"nope">>}

Top == stack[Len(stack)]

Item == Append(Top.path, Head(Top.todo))

\* The top frame moves on to its next item
Advance(stk) == [stk EXCEPT ![Len(stk)].todo = Tail(@)]

\* The top frame's loop is over: the except clause of its _scan_recursive caught an error
Abort(stk) == [stk EXCEPT ![Len(stk)].todo = << >>]

\* The frame of _scan_recursive(path): iterdir() lists the directory before the first
\* item; a listing that raises leaves the loop empty
Frame(f, path) ==
    LET node == Stat(f, path).node IN
    [path |-> path, todo |-> IF f.st[node] = "denied" THEN << >> ELSE Listing(f, node)]

ListedBy(f, path) ==
    IF f.st[Stat(f, path).node] = "denied" THEN {} ELSE {path}

\* scan_directory(directory, show_progress) up to the first item of the root
scan_directory(directory, show_progress) ==
    /\ pc = "idle"
    /\ nCalls < MaxCalls
    /\ nCalls' = nCalls + 1
    /\ prev' = last
    /\ IF RootCheck(fs, directory) # "ok"
       THEN /\ ret' = [kind |-> RootCheck(fs, directory), value |-> EmptyBuckets]
            /\ last' = [root |-> directory, ev0 |-> nEvents,
                        kind |-> RootCheck(fs, directory), value |-> EmptyBuckets]
            /\ UNCHANGED <<files_by_size, total_files_found, total_size_scanned,
                           pc, stack, pbar, acc, listed>>
       ELSE /\ files_by_size' = ClearedBuckets
            /\ total_files_found' = ResetFilesFound
            /\ total_size_scanned' = ResetSizeScanned
            /\ pbar' = IF show_progress
                       THEN [shown |-> TRUE, total |-> _count_files(fs, directory), n |-> 0]
                       ELSE NoBar
            /\ stack' = <<Frame(fs, directory)>>
            /\ acc' = [n |-> 0, bytes |-> 0]
            /\ listed' = [root |-> directory, dirs |-> ListedBy(fs, directory)]
            /\ pc' = "walk"
            /\ last' = [root |-> directory, ev0 |-> nEvents,
                        kind |-> "running", value |-> EmptyBuckets]
            /\ UNCHANGED ret
    /\ UNCHANGED <<cfgInput, config, fs, nEvents>>

\* The call ends: pbar.close(), and with a return value, _print_scan_statistics and
\* dict(self.files_by_size)
EndCall(kind, fbs) ==
    /\ pc' = "idle"
    /\ stack' = << >>
    /\ pbar' = NoBar
    /\ ret' = [kind |-> kind, value |-> IF kind = "mapping" THEN fbs ELSE EmptyBuckets]
    /\ last' = [last EXCEPT !.kind = kind,
                            !.value = IF kind = "mapping" THEN fbs ELSE EmptyBuckets]

\* One iteration of the loop of _scan_recursive up to the call it makes (lines 204-214):
\* is_file(), the progress update, is_dir(), _should_include_directory, the recursive call
ScanItem ==
    /\ pc = "walk"
    /\ Top.todo # << >>
    /\ LET t == TypeTest(fs, Item) IN
       IF t = "raise"
       THEN /\ stack' = Abort(stack)
            /\ UNCHANGED <<pc, pbar, ret, last, listed>>
       ELSE IF t = "file"
       THEN /\ pbar' = IF BarTruthy(pbar) THEN [pbar EXCEPT !.n = @ + 1] ELSE pbar
            /\ pc' = "check"
            /\ UNCHANGED <<stack, ret, last, listed>>
       ELSE IF t = "dir" /\ _should_include_directory(config, Item)
       THEN IF Len(stack) >= RecursionLimit
            THEN /\ EndCall("RecursionError", files_by_size)
                 /\ UNCHANGED listed
            ELSE /\ stack' = Append(Advance(stack), Frame(fs, Item))
                 /\ listed' = [listed EXCEPT !.dirs = @ \cup ListedBy(fs, Item)]
                 /\ UNCHANGED <<pc, pbar, ret, last>>
       ELSE /\ stack' = Advance(stack)
            /\ UNCHANGED <<pc, pbar, ret, last, listed>>
    /\ UNCHANGED <<cfgInput, config, fs, files_by_size, total_files_found,
                   total_size_scanned, prev, acc, nEvents, nCalls>>

\* if self._should_include_file(item) (line 209)
CheckFile ==
    /\ pc = "check"
    /\ IF _should_include_file(fs, config, Item)
       THEN /\ pc' = "process"
            /\ UNCHANGED stack
       ELSE /\ pc' = "walk"
            /\ stack' = Advance(stack)
    /\ UNCHANGED <<cfgInput, config, fs, files_by_size, total_files_found,
                   total_size_scanned, pbar, ret, last, prev, acc, listed, nEvents, nCalls>>

\* self._process_file(item) (lines 219-236)
_process_file ==
    /\ pc = "process"
    /\ LET s == Stat(fs, Item) IN
       IF s.err # "ok"
       THEN UNCHANGED <<files_by_size, total_files_found, total_size_scanned, acc>>
       ELSE LET info == FileInfo(Item, fs.size[s.node]) IN
            /\ files_by_size' = Insert(files_by_size, info)
            /\ total_files_found' = total_files_found + 1
            /\ total_size_scanned' = total_size_scanned + info.size
            /\ acc' = [n |-> acc.n + 1, bytes |-> acc.bytes + info.size]
    /\ pc' = "walk"
    /\ stack' = Advance(stack)
    /\ UNCHANGED <<cfgInput, config, fs, pbar, ret, last, prev, listed, nEvents, nCalls>>

\* The loop of a _scan_recursive frame is over: return to the caller, and from the root
\* frame to scan_directory, which returns the mapping
ReturnFromDir ==
    /\ pc = "walk"
    /\ Top.todo = << >>
    /\ IF Len(stack) = 1
       THEN EndCall("mapping", files_by_size)
       ELSE /\ stack' = SubSeq(stack, 1, Len(stack) - 1)
            /\ UNCHANGED <<pc, pbar, ret, last>>
    /\ UNCHANGED <<cfgInput, config, fs, files_by_size, total_files_found,
                   total_size_scanned, prev, acc, listed, nEvents, nCalls>>

\* get_potential_duplicates(), called between scans
GetPotentialDuplicates ==
    /\ pc = "idle"
    /\ ret.kind # "duplicates"
    /\ ret' = [kind |-> "duplicates", value |-> get_potential_duplicates(files_by_size)]
    /\ UNCHANGED <<cfgInput, config, fs, files_by_size, total_files_found,
                   total_size_scanned, pc, stack, pbar, last, prev, acc, listed,
                   nEvents, nCalls>>

----------------------------------------------------------------------------
(* The environment: other processes change the tree at any moment *)

FsTruncate(file) ==
    /\ nEvents < MaxFsEvents
    /\ fs.st[file] = "ok"
    /\ fs.size[file] # 0
    /\ fs' = [fs EXCEPT !.size[file] = 0]

FsRemove(file) ==
    /\ nEvents < MaxFsEvents
    /\ fs.st[file] = "ok"
    /\ fs' = [fs EXCEPT !.st[file] = "gone"]

FsDeny(node) ==
    /\ nEvents < MaxFsEvents
    /\ fs.st[node] = "ok"
    /\ fs' = [fs EXCEPT !.st[node] = "denied"]

FsEvent ==
    /\ \E kind \in {"truncate", "remove", "deny"} :
         \E node \in MutableFiles \cup MutableDirs :
            CASE kind = "truncate" -> node \in MutableFiles /\ FsTruncate(node)
              [] kind = "remove" -> node \in MutableFiles /\ FsRemove(node)
              [] OTHER -> FsDeny(node)
    /\ nEvents' = nEvents + 1
    /\ UNCHANGED <<cfgInput, config, files_by_size, total_files_found, total_size_scanned,
                   pc, stack, pbar, ret, last, prev, acc, listed, nCalls>>

Next ==
    \/ \E directory \in Roots, show_progress \in BOOLEAN :
          scan_directory(directory, show_progress)
    \/ ScanItem
    \/ CheckFile
    \/ _process_file
    \/ ReturnFromDir
    \/ GetPotentialDuplicates
    \/ FsEvent

Spec == Init /\ [][Next]_vars

----------------------------------------------------------------------------
(* The configuration loader on its own: every input, then the construction *)

InitCfg ==
    /\ cfgInput \in CfgInputs
    /\ config = NoConfig
    /\ InitScanner

Construct ==
    /\ config = NoConfig
    /\ config' = _load_config(cfgInput)
    /\ UNCHANGED <<cfgInput, fs, files_by_size, total_files_found, total_size_scanned,
                   pc, stack, pbar, ret, last, prev, acc, listed, nEvents, nCalls>>

NextCfg == Construct

SpecCfg == InitCfg /\ [][NextCfg]_vars

----------------------------------------------------------------------------
(* Vocabulary of the properties *)

RootErrors == {"FileNotFoundError", "NotADirectoryError"}

\* Names whose directory entry is a symbolic link
LinkNames == {n \in UNION {DOMAIN DirEntries[d] : d \in Dirs} :
                 \E d \in Dirs : n \in DOMAIN DirEntries[d] /\ Kind(DirEntries[d][n]) = "link"}

CountersMatchRecords ==
    /\ total_files_found = NumRecords(files_by_size)
    /\ total_size_scanned = SizeSum(files_by_size)

\* The (path, size) pairs of a bucket and how often a pair occurs in it
PairAt(bucket, i) == <<bucket[i].path, bucket[i].size>>

Occurrences(bucket, pair) == Cardinality({i \in 1..Len(bucket) : PairAt(bucket, i) = pair})

SameMultiset(b1, b2) ==
    /\ Len(b1) = Len(b2)
    /\ \A i \in 1..Len(b1) : Occurrences(b1, PairAt(b1, i)) = Occurrences(b2, PairAt(b1, i))

SameBuckets(m1, m2) ==
    /\ DOMAIN m1 = DOMAIN m2
    /\ \A k \in DOMAIN m1 : SameMultiset(m1[k], m2[k])

\* The files of the tree under `path` that pass every filter and can be read, found
\* through real directories that are eligible and can be listed
RECURSIVE EligibleUnder(_, _, _, _)
EligibleUnder(f, cfg, path, node) ==
    IF f.st[node] = "denied" THEN {}
    ELSE UNION {
        LET child == DirEntries[node][n]
            p == Append(path, n)
        IN IF Kind(child) = "file"
           THEN IF TypeTest(f, p) = "file" /\ _should_include_file(f, cfg, p)
                THEN {p} ELSE {}
           ELSE IF Kind(child) = "dir" /\ _should_include_directory(cfg, p)
                THEN EligibleUnder(f, cfg, p, child)
           ELSE {}
        : n \in DOMAIN DirEntries[node]}

RecordedPaths(fbs) == {r.path : r \in Records(fbs)}

----------------------------------------------------------------------------
(* Properties *)

\* C1: every record held in files_by_size has size > 0, a size within
\* [min_file_size, max_file_size] and, when include_extensions is non-empty, an
\* extension that is a member of it; in every state during and after a scan.
C1_AcceptedWithinFilters ==
    \A r \in Records(files_by_size) :
        /\ r.size > 0
        /\ config.min_file_size <= r.size
        /\ r.size <= config.max_file_size
        /\ (config.include_extensions # {} => r.extension \in config.include_extensions)

C3_Idempotent ==
    (/\ pc = "idle"
     /\ last.kind = "mapping"
     /\ prev.kind = "mapping"
     /\ last.root = prev.root
     /\ prev.ev0 = nEvents)
    => /\ SameBuckets(prev.value, last.value)
       /\ total_files_found = NumRecords(last.value)
       /\ total_size_scanned = SizeSum(last.value)

C3_Witness ==
    /\ pc = "idle"
    /\ last.kind = "mapping"
    /\ prev.kind = "mapping"
    /\ last.root = prev.root
    /\ prev.ev0 = nEvents
    /\ \E k \in DOMAIN last.value : Len(last.value[k]) >= 2

\* C4, as stated: in every state the counters are the number and the total size of the
\* records held, and they count only the records accepted by the most recent
\* scan_directory call (none, when that call failed on its root).
C4_CountersOfLastCall ==
    /\ CountersMatchRecords
    /\ total_files_found = (IF last.kind \in RootErrors THEN 0 ELSE acc.n)
    /\ total_size_scanned = (IF last.kind \in RootErrors THEN 0 ELSE acc.bytes)

\* C4, amended: in every state the counters are the number and the total size of the
\* records held, and they count only the records accepted since the most recent
\* scan_directory call that passed the root checks, which reset them to zero.
C4_CountersOfLastReset ==
    /\ CountersMatchRecords
    /\ total_files_found = acc.n
    /\ total_size_scanned = acc.bytes

C4_Witness ==
    /\ pc = "walk"
    /\ nCalls = 2
    /\ prev.kind = "mapping"
    /\ NumRecords(prev.value) > 0
    /\ total_files_found > 0

\* C5: between scans, the value get_potential_duplicates returns holds exactly the buckets
\* of files_by_size with two or more records, each with the record sequence of
\* files_by_size; no bucket of length 1 is in it.
C5_DuplicatesAreTheLongBuckets ==
    (pc = "idle" /\ ret.kind = "duplicates")
    => /\ DOMAIN ret.value = {k \in DOMAIN files_by_size : Len(files_by_size[k]) >= 2}
       /\ \A k \in DOMAIN ret.value :
             /\ k \in DOMAIN files_by_size
             /\ ret.value[k] = files_by_size[k]
             /\ Len(ret.value[k]) >= 2

C5_Witness ==
    /\ pc = "idle"
    /\ ret.kind = "duplicates"
    /\ DOMAIN ret.value # {}
    /\ \E k \in DOMAIN files_by_size : Len(files_by_size[k]) = 1

\* C6: a scan_directory call on a root that does not exist ends with FileNotFoundError, on
\* a root that exists and is not a directory with NotADirectoryError, and in both cases
\* within the step of the call: nothing is listed and files_by_size and the counters are
\* left as they were.
C6_RootErrorsLeaveState ==
    [][(nCalls' = nCalls + 1) =>
         LET s == Stat(fs, last'.root)
             untouched == /\ pc' = "idle"
                          /\ UNCHANGED <<files_by_size, total_files_found,
                                         total_size_scanned, stack, listed>>
         IN /\ (s.err \in {"ENOENT", "ENOTDIR"})
                  => (last'.kind = "FileNotFoundError" /\ ret'.kind = last'.kind /\ untouched)
            /\ (s.err = "ok" /\ Kind(s.node) # "dir")
                  => (last'.kind = "NotADirectoryError" /\ ret'.kind = last'.kind /\ untouched)
      ]_vars

C6_Witness ==
    /\ last.kind \in RootErrors
    /\ prev.kind = "mapping"
    /\ total_files_found > 0
    /\ listed.dirs # {}

\* C7: when scan_directory has returned and the tree did not change during the call, every
\* eligible file of the tree under the root that can be read is recorded, whatever errors
\* other entries raised.
C7_ErrorsAreLocal ==
    (pc = "idle" /\ last.kind = "mapping" /\ last.ev0 = nEvents /\ ret.kind = "mapping")
    => EligibleUnder(fs, config, last.root, Stat(fs, last.root).node)
          \subseteq RecordedPaths(last.value)

\* C8: every ScanConfig the loader produces has 0 <= min_file_size <= max_file_size.
C8_ConfigBounds ==
    config.loaded =>
        /\ config.min_file_size >= 0
        /\ config.min_file_size <= config.max_file_size

\* C9: with follow_symlinks false the walk lists no directory reached through a symbolic
\* link and records no file whose path passes through one.
C9_NoSymlinkDescent ==
    (~config.follow_symlinks) =>
        /\ \A p \in listed.dirs : \A k \in 1..Len(p) : p[k] \notin LinkNames
        /\ \A r \in Records(files_by_size) :
              \A k \in 1..Len(r.path) : r.path[k] \notin LinkNames

\* C10: a scan_directory call that has ended either raised the root error or returned the
\* mapping.
C10_EndsWithRootErrorOrMapping ==
    (pc = "idle" /\ last.kind # "none") => last.kind \in RootErrors \cup {"mapping"}

====
